---- MODULE Spec2Model ----
(***************************************************************************)
(* A model of the Chemical-Engineering-AI retrieval application:           *)
(*   - DocumentProcessor.chunk_text / process_book / process_new_books     *)
(*   - BookManager (the JSON tracker of processed books)                   *)
(*   - VectorStore (the ChromaDB collection, as a map id -> document)      *)
(*   - RAGEngine.query / query_stream and the handlers of app.py           *)
(*                                                                         *)
(* Text is a sequence of one-character strings; " " stands for every       *)
(* whitespace character.  The specifications share the variables:          *)
(*   SpecChunk  chunk_text as a pure function of its inputs                *)
(*   SpecTruncate  helpers.truncate_text as a pure function of its inputs  *)
(*   SpecTracker   one BookManager, its tracker file and its reloading     *)
(*   SpecSessions  two sessions scanning the same directory concurrently   *)
(*   Spec       the book library: directory, tracker, vector store, the    *)
(*              session's initialisation, Rescan and Reprocess All         *)
(*   SpecQuery  question answering: query, query_stream, the submit        *)
(*              handler of main and the session's chat history             *)
(***************************************************************************)
EXTENDS Integers, Sequences, FiniteSets, TLC

VARIABLES
    \* ---- SpecChunk, SpecTruncate
    cin,            \* the inputs of one call of chunk_text / truncate_text
    cout,           \* its result, once cpc = "done"
    cpc,            \* "ready" | "done"
    \* ---- Spec
    dirExists,      \* settings.BOOKS_DIR exists
    files,          \* the directory: file name -> contents (present files only)
    tracker,        \* book_tracker.json: file name -> [file_hash, chunk_count]
    store,          \* the collection: document id -> document text
    rag_engine,     \* st.session_state.rag_engine: "None" | "engine"
    auto_init_done, \* st.session_state.auto_init_done
    last,           \* what the last operation did (history variable)
    marked,         \* file name -> contents when it was last marked as processed
                    \* and not removed since (history variable)
    attempts,       \* calls of auto_initialize_system that went past its guard
    scans,          \* calls of auto_initialize_system that scanned the books
    \* ---- SpecQuery
    chat_history,       \* st.session_state.chat_history
    current_response,   \* st.session_state.current_response ([mode |-> None]: None)
    qlast,              \* what the last query operation did (history variable)
    \* ---- SpecTracker
    bm,             \* processed_books of one BookManager, in memory
    tracker_file,   \* book_tracker.json as it is on disk
    \* ---- SpecSessions
    sessions,       \* session -> where it is in its scan and what it holds
    hist            \* what the sessions did to each book (history variable)

chunkVars == <<cin, cout, cpc>>
libVars   == <<dirExists, files, tracker, store, rag_engine, auto_init_done,
               last, marked, attempts, scans>>
queryVars == <<chat_history, current_response, qlast>>
trackerVars == <<bm, tracker_file>>
raceVars  == <<sessions, hist>>
vars      == <<cin, cout, cpc, dirExists, files, tracker, store, rag_engine,
               auto_init_done, last, marked, attempts, scans,
               chat_history, current_response, qlast,
               bm, tracker_file, sessions, hist>>

None == "None"

\* a dictionary with no key
EmptyMap == [x \in {} |-> None]

Min(a, b) == IF a <= b THEN a ELSE b

\* Seq -> set of its elements
Range(s) == {s[i] : i \in 1..Len(s)}

(***************************************************************************)
(* Python string operations used by chunk_text                             *)
(***************************************************************************)

\* a whitespace character, as str.strip() sees it
IsSpace(ch) == ch = " "

RECURSIVE LStrip(_)
LStrip(s) ==
    IF s = <<>> THEN s
    ELSE IF IsSpace(Head(s)) THEN LStrip(Tail(s)) ELSE s

RECURSIVE RStrip(_)
RStrip(s) ==
    IF s = <<>> THEN s
    ELSE IF IsSpace(s[Len(s)]) THEN RStrip(SubSeq(s, 1, Len(s) - 1)) ELSE s

\* str.strip()
Strip(s) == RStrip(LStrip(s))

\* s[:k] for k >= 0
PyPrefix(s, k) == SubSeq(s, 1, Min(k, Len(s)))

\* s[k:] for any integer k (a negative k counts from the end)
PySuffix(s, k) ==
    IF k >= 0 THEN SubSeq(s, k + 1, Len(s))
    ELSE IF -k >= Len(s) THEN s
    ELSE SubSeq(s, Len(s) + k + 1, Len(s))

(***************************************************************************)
(* DocumentProcessor.chunk_text                                            *)
(***************************************************************************)

\* "Approximate: 1 token = 4 characters"
CharsPerToken == 4

char_chunk_size(chunk_size) == chunk_size * CharsPerToken
char_overlap(chunk_overlap) == chunk_overlap * CharsPerToken

\* one chunk dictionary
MakeChunk(text, chunk_id, book_name, page) ==
    [text |-> Strip(text), chunk_id |-> chunk_id, book_name |-> book_name,
     page |-> page]

\* the slice taken for one chunk of the while loop: current_chunk[:char_chunk_size]
SliceShort(current_chunk, S) == PyPrefix(current_chunk, S - 1)
ChunkSlice(current_chunk, S) == PyPrefix(current_chunk, S)

\* what the while loop keeps: current_chunk[char_chunk_size - char_overlap:]
AdvanceNoOverlap(current_chunk, S, V) == PySuffix(current_chunk, S)
Advance(current_chunk, S, V) == PySuffix(current_chunk, S - V)

\* The while loop of one page: st = [cur, chunks, chunk_id].
RECURSIVE CutChunks(_, _, _, _, _)
CutChunks(st, page_num, book_name, S, V) ==
    IF Len(st.cur) >= S
    THEN CutChunks(
            [cur      |-> Advance(st.cur, S, V),
             chunks   |-> Append(st.chunks,
                                 MakeChunk(ChunkSlice(st.cur, S), st.chunk_id,
                                           book_name, page_num)),
             chunk_id |-> st.chunk_id + 1],
            page_num, book_name, S, V)
    ELSE st

\* The for loop over pages[1:].  A section is [ok, page_num, text]: ok is
\* FALSE when its page number does not parse (the except branch: continue).
\* st carries page_num, the number of the last section that parsed.
RECURSIVE PageLoop(_, _, _, _, _)
PageLoop(sections, st, book_name, S, V) ==
    IF sections = <<>> THEN st
    ELSE LET sec == Head(sections)
         IN  IF ~sec.ok
             THEN PageLoop(Tail(sections), st, book_name, S, V)
             ELSE LET added == [cur      |-> st.cur \o sec.text,
                                chunks   |-> st.chunks,
                                chunk_id |-> st.chunk_id]
                      cut == CutChunks(added, sec.page_num, book_name, S, V)
                  IN  PageLoop(Tail(sections),
                               [cur |-> cut.cur, chunks |-> cut.chunks,
                                chunk_id |-> cut.chunk_id,
                                page_num |-> sec.page_num],
                               book_name, S, V)

\* chunk_text(text, metadata) of a processor with (chunk_size, chunk_overlap)
chunk_text(sections, book_name, chunk_size, chunk_overlap) ==
    LET S == char_chunk_size(chunk_size)
        V == char_overlap(chunk_overlap)
        st == PageLoop(sections,
                       [cur |-> <<>>, chunks |-> <<>>, chunk_id |-> 0,
                        page_num |-> 0],
                       book_name, S, V)
    IN  IF Strip(st.cur) # <<>>
        THEN Append(st.chunks,
                    MakeChunk(st.cur, st.chunk_id, book_name, st.page_num))
        ELSE st.chunks

(***************************************************************************)
(* The books directory and the files in it                                 *)
(***************************************************************************)

\* A file name is <<stem, extension>>: Path.name is the pair, Path.stem the
\* first part; glob("*.pdf") matches the extension.
FileNames == { <<"a", "pdf">>, <<"b", "pdf">>, <<"a", "txt">> }

\* the order in which the directory lists its files
NameOrder == << <<"a", "pdf">>, <<"a", "txt">>, <<"b", "pdf">> >>

\* What a file may hold: "bad" is not a readable PDF (fitz.open raises),
\* "short" is one page of text, "long" two pages.
Contents == {"bad", "short", "long"}

IsPdf(n) == n[2] = "pdf"

\* list(books_dir.glob("*.pdf"))
GlobPdf(fs) ==
    SelectSeq(NameOrder, LAMBDA n : n \in DOMAIN fs /\ IsPdf(n))

\* extract_book_name: Path(file_path).stem
extract_book_name(n) == n[1]

(***************************************************************************)
(* BookManager                                                             *)
(***************************************************************************)

\* _calculate_file_hash: the MD5 digest of the file's bytes.  MD5 is taken
\* to be free of collisions on the contents modelled.
_calculate_file_hash(n, c) == <<"md5", c>>

\* is_processed(file_path), on the dictionary processed_books = pb
IsProcessedAnyHash(pb, fs, n) == n \in DOMAIN pb
IsProcessedByHash(pb, fs, n) ==
    \E m \in DOMAIN pb : pb[m].file_hash = _calculate_file_hash(n, fs[n])
is_processed(pb, fs, n) ==
    IF n \notin DOMAIN pb THEN FALSE
    ELSE _calculate_file_hash(n, fs[n]) = pb[n].file_hash

\* mark_as_processed(file_path, chunk_count): the new processed_books
mark_as_processed(pb, fs, n, chunk_count) ==
    [m \in DOMAIN pb \cup {n} |->
        IF m = n THEN [file_hash   |-> _calculate_file_hash(n, fs[n]),
                       chunk_count |-> chunk_count]
        ELSE pb[m]]

\* get_new_books(books_directory)
GetAllBooks(pb, de, fs) == IF ~de THEN <<>> ELSE GlobPdf(fs)
get_new_books(pb, de, fs) ==
    IF ~de THEN <<>>
    ELSE SelectSeq(GlobPdf(fs), LAMBDA n : ~is_processed(pb, fs, n))

\* remove_book(file_name)
remove_book(pb, n) == [m \in DOMAIN pb \ {n} |-> pb[m]]

\* clear_all()
clear_all(pb) == EmptyMap

\* get_stats()['total_books_processed']
total_books_processed(pb) == Cardinality(DOMAIN pb)

(***************************************************************************)
(* SpecChunk: chunk_text applied to bounded inputs                         *)
(***************************************************************************)

\* longest text given to chunk_text
MaxTextLen == 13
\* largest chunk_size / chunk_overlap (in tokens) a processor is built with
MaxChunkSize == 3

Letters == <<"a", "b", "c">>

\* A text of length n: the letters a b c a b c ..., so that a character tells
\* its position, with blanks at positions p1 and p2 (0: no blank).
TextOf(n, p1, p2) ==
    [i \in 1..n |-> IF i = p1 \/ i = p2 THEN " " ELSE Letters[(i % 3) + 1]]

\* DocumentProcessor.__init__: "chunk_size or settings.CHUNK_SIZE" makes both
\* at least 1.  With char_overlap = char_chunk_size, or >= twice it, the
\* while loop of chunk_text never ends once a chunk is cut and there is no
\* result to speak of; those processors are left out.
Processors ==
    {p \in (1..MaxChunkSize) \X (1..MaxChunkSize) :
        p[2] # p[1] /\ p[2] < 2 * p[1]}

\* pages[1:] of a text with two page markers: the text cut in two sections,
\* of which section `bad` (0: none) has a page number that does not parse.
SectionsOf(text, cut, bad) ==
    << [ok |-> bad # 1, page_num |-> 1, text |-> SubSeq(text, 1, cut)],
       [ok |-> bad # 2, page_num |-> 2, text |-> SubSeq(text, cut + 1, Len(text))] >>

ChunkInit ==
    /\ \E n \in 0..MaxTextLen : \E p2 \in 0..n : \E p1 \in 0..p2 :
       \E cut \in 0..n : \E bad \in 0..2 : \E p \in Processors :
          cin = [sections      |-> SectionsOf(TextOf(n, p1, p2), cut, bad),
                 chunk_size    |-> p[1],
                 chunk_overlap |-> p[2]]
    /\ cout = <<>>
    /\ cpc = "ready"

\* one call of chunk_text
ChunkCall ==
    /\ cpc = "ready"
    /\ cout' = chunk_text(cin.sections, "book", cin.chunk_size, cin.chunk_overlap)
    /\ cpc' = "done"
    /\ UNCHANGED cin

\* the variables of the other specifications, at rest
LibIdle ==
    /\ dirExists = TRUE /\ files = EmptyMap /\ tracker = EmptyMap /\ store = EmptyMap
    /\ marked = EmptyMap
    /\ rag_engine = None /\ auto_init_done = FALSE
    /\ last = [op |-> "init"] /\ attempts = 0 /\ scans = 0

ChunkIdle ==
    /\ cin = [sections |-> <<>>, chunk_size |-> 1, chunk_overlap |-> 1]
    /\ cout = <<>> /\ cpc = "idle"

QueryIdle ==
    /\ chat_history = <<>> /\ current_response = [mode |-> None]
    /\ qlast = [op |-> "init"]

TrackerIdle ==
    /\ bm = EmptyMap
    /\ tracker_file = [state |-> "absent", processed_books |-> EmptyMap]

RaceIdle ==
    /\ sessions = <<>> /\ hist = <<>>

InitChunk == ChunkInit /\ LibIdle /\ QueryIdle /\ TrackerIdle /\ RaceIdle
NextChunk == ChunkCall /\ UNCHANGED <<libVars, queryVars, trackerVars, raceVars>>
SpecChunk == InitChunk /\ [][NextChunk]_vars

\* the page text chunk_text buffers: the text of the sections that parse
RECURSIVE Buffered(_)
Buffered(sections) ==
    IF sections = <<>> THEN <<>>
    ELSE (IF Head(sections).ok THEN Head(sections).text ELSE <<>>)
         \o Buffered(Tail(sections))

cS == char_chunk_size(cin.chunk_size)
cV == char_overlap(cin.chunk_overlap)
cBuf == Buffered(cin.sections)

\* C6: chunking is fixed-size character slicing.  Every chunk but the last
\* is the (stripped) slice of exactly S = chunk_size * 4 consecutive
\* characters of the buffered page text, no chunk's text is longer than S,
\* and a chunk that is not such a slice (a remainder) can only be the last.
C6_FixedSizeSlices ==
    cpc = "done" =>
        /\ \A k \in 1..Len(cout) : Len(cout[k].text) <= cS
        /\ \A k \in 1..(Len(cout) - 1) :
              \E start \in 0..(Len(cBuf) - cS) :
                  cout[k].text = Strip(SubSeq(cBuf, start + 1, start + cS))
        /\ \A k \in 1..Len(cout) :
              (\A start \in 0..(Len(cBuf) - cS) :
                  cout[k].text # Strip(SubSeq(cBuf, start + 1, start + cS)))
              => k = Len(cout)

\* C6 witness: three chunks, the first two full slices of S characters and
\* the last one a shorter remainder
C6_Witness ==
    /\ cpc = "done" /\ Len(cout) = 3
    /\ Len(cout[1].text) = cS /\ Len(cout[2].text) = cS
    /\ Len(cout[3].text) < cS /\ Len(cout[3].text) > 0

\* the slice of chunk k (1-based) when chunks start S - V apart
SliceAt(k) ==
    SubSeq(cBuf, (k - 1) * (cS - cV) + 1, Min((k - 1) * (cS - cV) + cS, Len(cBuf)))

\* C7: with V = chunk_overlap * 4 < S, chunk k+1 starts exactly S - V
\* characters after chunk k in the buffered page text, so the last V
\* characters of the slice of chunk k are the first V of the slice of k+1.
C7_Overlap ==
    (cpc = "done" /\ cV < cS) =>
        /\ \A k \in 1..Len(cout) :
              /\ cout[k].chunk_id = k - 1
              /\ cout[k].text = Strip(SliceAt(k))
        /\ \A k \in 1..(Len(cout) - 1) :
              /\ Len(SliceAt(k)) = cS
              /\ Len(SliceAt(k + 1)) >= cV
              /\ SubSeq(SliceAt(k), cS - cV + 1, cS) = SubSeq(SliceAt(k + 1), 1, cV)

\* C7 witness: overlapping chunks whose shared characters are not all alike
C7_Witness ==
    /\ cpc = "done" /\ cV < cS /\ Len(cout) >= 3
    /\ cout[1].text # cout[2].text
    /\ SubSeq(cout[1].text, cS - cV + 1, cS) = SubSeq(cout[2].text, 1, cV)
    /\ Cardinality(Range(SubSeq(cout[2].text, 1, cV))) > 1

(***************************************************************************)
(* DocumentProcessor.process_book and process_new_books                    *)
(***************************************************************************)

\* settings.CHUNK_SIZE and settings.CHUNK_OVERLAP, in tokens.  The source
\* sets 1000 and 200; the model scales them down with the texts.
CHUNK_SIZE == 2
CHUNK_OVERLAP == 1

\* the page sections load_pdf and the split of chunk_text get from a PDF
PdfSections(c) ==
    IF c = "short"
    THEN << [ok |-> TRUE, page_num |-> 1, text |-> TextOf(5, 0, 0)] >>
    ELSE SectionsOf(TextOf(10, 3, 0), 6, 0)

\* process_book(file_path): load_pdf raises on a file that is no PDF,
\* otherwise the chunks of its text
process_book(n, c) ==
    IF c = "bad" THEN [raised |-> TRUE, chunks |-> <<>>]
    ELSE [raised |-> FALSE,
          chunks |-> chunk_text(PdfSections(c), extract_book_name(n),
                                CHUNK_SIZE, CHUNK_OVERLAP)]

\* the first loop of process_new_books: new_books and skipped_books
NewBooksAll(pb, fs, all_pdfs) == all_pdfs
NewBooksOf(pb, fs, all_pdfs) ==
    SelectSeq(all_pdfs, LAMBDA n : ~is_processed(pb, fs, n))
SkippedOf(pb, fs, all_pdfs) ==
    SelectSeq(all_pdfs, LAMBDA n : is_processed(pb, fs, n))

\* The second loop of process_new_books.  acc = [all_chunks, pb, calls,
\* marked]: pb is book_manager.processed_books, calls the files passed to
\* process_book and marked those marked as processed (both for the record).
RECURSIVE ProcessLoopStops(_, _, _)
ProcessLoopStops(new_books, acc, fs) ==
    IF new_books = <<>> THEN acc
    ELSE LET n == Head(new_books)
             r == process_book(n, fs[n])
         IN  IF r.raised THEN [acc EXCEPT !.calls = Append(@, n)]
             ELSE ProcessLoopStops(
                      Tail(new_books),
                      [all_chunks |-> acc.all_chunks \o r.chunks,
                       pb         |-> mark_as_processed(acc.pb, fs, n, Len(r.chunks)),
                       calls      |-> Append(acc.calls, n),
                       marked     |-> Append(acc.marked, n)],
                      fs)
RECURSIVE ProcessLoop(_, _, _)
ProcessLoop(new_books, acc, fs) ==
    IF new_books = <<>> THEN acc
    ELSE LET n == Head(new_books)
             r == process_book(n, fs[n])
         IN  ProcessLoop(
                 Tail(new_books),
                 IF r.raised
                 THEN [acc EXCEPT !.calls = Append(@, n)]
                 ELSE [all_chunks |-> acc.all_chunks \o r.chunks,
                       pb         |-> mark_as_processed(acc.pb, fs, n, Len(r.chunks)),
                       calls      |-> Append(acc.calls, n),
                       marked     |-> Append(acc.marked, n)],
                 fs)

\* process_new_books(book_manager): [result, pb, calls, marked, pb_before]
process_new_books(pb, de, fs) ==
    IF ~de
    THEN [result |-> [new_books_processed |-> 0, skipped_books |-> 0,
                      total_new_chunks |-> 0, chunks |-> <<>>,
                      new_book_names |-> <<>>, skipped_book_names |-> <<>>],
          pb |-> pb, calls |-> <<>>, marked |-> <<>>, pb_before |-> pb]
    ELSE LET all_pdfs == GlobPdf(fs)
             new_books == NewBooksOf(pb, fs, all_pdfs)
             skipped_books == SkippedOf(pb, fs, all_pdfs)
             acc == ProcessLoop(new_books,
                                [all_chunks |-> <<>>, pb |-> pb,
                                 calls |-> <<>>, marked |-> <<>>],
                                fs)
         IN  [result |-> [new_books_processed |-> Len(new_books),
                          skipped_books       |-> Len(skipped_books),
                          total_new_chunks    |-> Len(acc.all_chunks),
                          chunks              |-> acc.all_chunks,
                          new_book_names      |-> new_books,
                          skipped_book_names  |-> skipped_books],
              pb |-> acc.pb, calls |-> acc.calls, marked |-> acc.marked,
              pb_before |-> pb]

\* a call of process_new_books that did not take place
NoScan ==
    [result |-> [new_books_processed |-> 0, skipped_books |-> 0,
                 total_new_chunks |-> 0, chunks |-> <<>>,
                 new_book_names |-> <<>>, skipped_book_names |-> <<>>],
     pb |-> EmptyMap, calls |-> <<>>, marked |-> <<>>, pb_before |-> EmptyMap]

(***************************************************************************)
(* VectorStore: the collection as a map  document id -> document text      *)
(***************************************************************************)

\* ids = f"{book_name}_chunk_{chunk_id}"
DocId(chunk) == <<chunk.book_name, chunk.chunk_id>>

\* the text add_documents stores under an id (ids of one call are distinct)
TextOfId(chunks, id) ==
    (CHOOSE ch \in Range(chunks) : DocId(ch) = id).text

\* add_documents(chunks): collection.add leaves a document whose id is
\* already in the collection as it is
add_documents(st, chunks) ==
    [id \in DOMAIN st \cup {DocId(ch) : ch \in Range(chunks)} |->
        IF id \in DOMAIN st THEN st[id] ELSE TextOfId(chunks, id)]

\* clear_collection(): delete the collection and create it again
ClearCollectionKeeps(st) == st
clear_collection(st) == EmptyMap

(***************************************************************************)
(* app.py: the handlers of one session, on a record w of what they read    *)
(* and write:                                                              *)
(*   tracker, store, marked         the tracker file, the collection       *)
(*   rag_engine, auto_init_done     st.session_state                       *)
(*   attempts, scans                the counters of auto-initialisation    *)
(*   init_ran, init_error, init_warning, new_books, scanned, scan,         *)
(*   button_ran, button_error       what this run did (for the record)     *)
(***************************************************************************)

\* calls of auto_initialize_system that may go past its guard in one session
MaxAttempts == 3

\* the tracker and its history after a call of process_new_books
AfterScan(w, sc, fs) ==
    [w EXCEPT !.tracker = sc.pb,
              !.marked  = [n \in DOMAIN w.marked \cup Range(sc.marked) |->
                              IF n \in Range(sc.marked) THEN fs[n]
                              ELSE w.marked[n]],
              !.scanned = TRUE,
              !.scan    = sc]

\* the guard of auto_initialize_system
InitGuardNone(w) == FALSE
InitGuard(w) == w.auto_init_done

\* "if result['total_new_chunks'] > 0: ...add_documents(result['chunks'])"
\* of a handler; canAdd is FALSE when that call raises
AddNewChunks(w, result, canAdd) ==
    IF result.total_new_chunks > 0 /\ canAdd
    THEN [w EXCEPT !.store = add_documents(@, result.chunks)]
    ELSE w

\* auto_initialize_system(), from "Auto-process new books" on: w is the
\* session with its RAG engine; an exception of add_documents is caught
\* and shown as a warning
InitBooks(w, new_books, sc, fs, addOk) ==
    IF new_books = <<>>
    THEN [w EXCEPT !.new_books = new_books, !.scans = @ + 1,
                   !.auto_init_done = TRUE]
    ELSE [AddNewChunks(AfterScan(w, sc, fs), sc.result, addOk)
            EXCEPT !.new_books = new_books, !.scans = @ + 1,
                   !.init_warning = sc.result.total_new_chunks > 0 /\ ~addOk,
                   !.auto_init_done = TRUE]

\* auto_initialize_system(): engineOk tells whether RAGEngine() can be
\* constructed, addOk whether add_documents succeeds
auto_initialize_system(w, de, fs, engineOk, addOk) ==
    IF InitGuard(w) THEN w
    ELSE IF w.rag_engine = None /\ ~engineOk
    THEN [w EXCEPT !.attempts = @ + 1, !.init_ran = TRUE, !.init_error = TRUE]
    ELSE InitBooks([w EXCEPT !.attempts = @ + 1, !.init_ran = TRUE,
                             !.rag_engine = "engine"],
                   get_new_books(w.tracker, de, fs),
                   process_new_books(w.tracker, de, fs), fs, addOk)

\* rescan_for_new_books() after its call sc of process_new_books; without
\* a RAG engine add_documents raises as it does when addOk is FALSE
RescanAdd(w, sc, fs, addOk) ==
    [AddNewChunks(AfterScan(w, sc, fs), sc.result,
                  w.rag_engine # None /\ addOk)
        EXCEPT !.button_ran = TRUE,
               !.button_error = sc.result.total_new_chunks > 0
                                /\ ~(w.rag_engine # None /\ addOk)]

\* rescan_for_new_books()
rescan_for_new_books(w, de, fs, addOk) ==
    RescanAdd(w, process_new_books(w.tracker, de, fs), fs, addOk)

\* reprocess_all_books() once the collection and the tracker are cleared
\* (w), after its call sc of process_new_books
ReprocessAdd(w, sc, fs, addOk) ==
    [AddNewChunks(AfterScan(w, sc, fs), sc.result, addOk)
        EXCEPT !.button_ran = TRUE,
               !.button_error = sc.result.total_new_chunks > 0 /\ ~addOk]

\* reprocess_all_books(): clearOk tells whether clear_collection succeeds
reprocess_all_books(w, de, fs, clearOk, addOk) ==
    IF ~clearOk
    THEN [w EXCEPT !.button_ran = TRUE, !.button_error = TRUE]
    ELSE ReprocessAdd([w EXCEPT !.store = clear_collection(@),
                                !.tracker = clear_all(@),
                                !.marked = EmptyMap],
                      process_new_books(clear_all(w.tracker), de, fs),
                      fs, addOk)

\* the buttons of the sidebar
Buttons == {"none", "rescan", "reprocess"}

\* main() after auto_initialize_system(): the button that was pressed
MainButton(w, de, fs, button, clearOk, addOk2) ==
    IF button = "rescan" THEN rescan_for_new_books(w, de, fs, addOk2)
    ELSE IF button = "reprocess" /\ w.rag_engine # None
    THEN reprocess_all_books(w, de, fs, clearOk, addOk2)
    ELSE w

\* main(): auto_initialize_system(), then the button
main(w, de, fs, button, engineOk, addOk, clearOk, addOk2) ==
    MainButton(auto_initialize_system(w, de, fs, engineOk, addOk),
               de, fs, button, clearOk, addOk2)

\* the state a run starts from
World ==
    [tracker |-> tracker, store |-> store, marked |-> marked,
     rag_engine |-> rag_engine, auto_init_done |-> auto_init_done,
     attempts |-> attempts, scans |-> scans,
     init_ran |-> FALSE, init_error |-> FALSE, init_warning |-> FALSE,
     new_books |-> <<>>, scanned |-> FALSE, scan |-> NoScan,
     button_ran |-> FALSE, button_error |-> FALSE]

(***************************************************************************)
(* Spec: the book library                                                  *)
(***************************************************************************)

LibInit ==
    /\ dirExists = TRUE
    /\ files = EmptyMap
    /\ tracker = EmptyMap
    /\ store = EmptyMap
    /\ marked = EmptyMap
    /\ rag_engine = None
    /\ auto_init_done = FALSE
    /\ attempts = 0
    /\ scans = 0
    /\ last = [op |-> "init"]

sessionVars == <<rag_engine, auto_init_done, attempts, scans>>
diskVars == <<tracker, store, marked>>

\* a file is written to the books directory (a new file or new contents)
WriteFile ==
    \E n \in FileNames, c \in Contents :
        /\ dirExists
        /\ (IF n \in DOMAIN files THEN files[n] # c ELSE TRUE)
        /\ (~IsPdf(n) => c = "short")
        /\ files' = [m \in DOMAIN files \cup {n} |-> IF m = n THEN c ELSE files[m]]
        /\ last' = [op |-> "env"]
        /\ UNCHANGED <<dirExists, diskVars, sessionVars>>

\* a file is deleted from the books directory
DeleteFile ==
    \E n \in DOMAIN files :
        /\ files' = [m \in DOMAIN files \ {n} |-> files[m]]
        /\ last' = [op |-> "env"]
        /\ UNCHANGED <<dirExists, diskVars, sessionVars>>

\* the books directory is removed
RemoveDir ==
    /\ dirExists
    /\ dirExists' = FALSE
    /\ files' = EmptyMap
    /\ last' = [op |-> "env"]
    /\ UNCHANGED <<diskVars, sessionVars>>

\* the books directory is created (settings.validate)
MakeDir ==
    /\ ~dirExists
    /\ dirExists' = TRUE
    /\ last' = [op |-> "env"]
    /\ UNCHANGED <<files, diskVars, sessionVars>>

\* a new browser session: st.session_state starts empty
NewSession ==
    /\ ~(rag_engine = None /\ attempts = 0)
    /\ rag_engine' = None
    /\ auto_init_done' = FALSE
    /\ attempts' = 0
    /\ scans' = 0
    /\ last' = [op |-> "new_session"]
    /\ UNCHANGED <<dirExists, files, diskVars>>

\* one run of main()
Run ==
    \E button \in Buttons, engineOk, addOk, clearOk, addOk2 \in BOOLEAN :
        /\ (~auto_init_done => attempts < MaxAttempts)
        \* an outcome is chosen only for the calls this run can make
        /\ (auto_init_done => engineOk /\ addOk)
        /\ (rag_engine # None => engineOk)
        /\ (button = "none" => addOk2)
        /\ (button # "reprocess" => clearOk)
        /\ \E w \in {main(World, dirExists, files, button,
                         engineOk, addOk, clearOk, addOk2)} :
               /\ tracker' = w.tracker
               /\ store' = w.store
               /\ marked' = w.marked
               /\ rag_engine' = w.rag_engine
               /\ auto_init_done' = w.auto_init_done
               /\ attempts' = w.attempts
               /\ scans' = w.scans
               /\ last' = [op |-> "run", button |-> button,
                           was_done |-> auto_init_done,
                           init_ran |-> w.init_ran,
                           init_error |-> w.init_error,
                           button_ran |-> w.button_ran,
                           button_error |-> w.button_error,
                           chunks |-> IF w.button_ran THEN w.scan.result.chunks
                                      ELSE <<>>,
                           marked |-> IF w.button_ran THEN w.scan.marked
                                      ELSE <<>>]
        /\ UNCHANGED <<dirExists, files>>

Init == LibInit /\ ChunkIdle /\ QueryIdle /\ TrackerIdle /\ RaceIdle
Next ==
    /\ \/ WriteFile
       \/ DeleteFile
       \/ RemoveDir
       \/ MakeDir
       \/ NewSession
       \/ Run
    /\ UNCHANGED <<chunkVars, queryVars, trackerVars, raceVars>>
Spec == Init /\ [][Next]_vars

(***************************************************************************)
(* SpecBooks: BookManager and process_new_books on their own, on the same  *)
(* directory and tracker file                                              *)
(***************************************************************************)

\* BookManager(); DocumentProcessor().process_new_books(book_manager)
ProcessNewBooks ==
    \E sc \in {process_new_books(tracker, dirExists, files)} :
        /\ tracker' = sc.pb
        /\ marked' = [n \in DOMAIN marked \cup Range(sc.marked) |->
                         IF n \in Range(sc.marked) THEN files[n] ELSE marked[n]]
        /\ last' = [op |-> "process_new_books", scan |-> sc]
        /\ UNCHANGED <<dirExists, files, store, sessionVars>>

\* BookManager().get_new_books()
GetNewBooks ==
    /\ last' = [op |-> "get_new_books",
                ret |-> get_new_books(tracker, dirExists, files)]
    /\ UNCHANGED <<dirExists, files, diskVars, sessionVars>>

\* BookManager().is_processed(path) of a file of the directory
IsProcessed ==
    \E n \in DOMAIN files :
        /\ last' = [op |-> "is_processed", name |-> n,
                    ret |-> is_processed(tracker, files, n)]
        /\ UNCHANGED <<dirExists, files, diskVars, sessionVars>>

\* BookManager().remove_book(file_name)
RemoveBook ==
    \E n \in FileNames :
        /\ tracker' = IF n \in DOMAIN tracker THEN remove_book(tracker, n)
                      ELSE tracker
        /\ marked' = [m \in DOMAIN marked \ {n} |-> marked[m]]
        /\ last' = [op |-> "remove_book", name |-> n]
        /\ UNCHANGED <<dirExists, files, store, sessionVars>>

\* BookManager().clear_all()
ClearAll ==
    /\ tracker' = clear_all(tracker)
    /\ marked' = EmptyMap
    /\ last' = [op |-> "clear_all"]
    /\ UNCHANGED <<dirExists, files, store, sessionVars>>

NextBooks ==
    /\ \/ WriteFile
       \/ DeleteFile
       \/ RemoveDir
       \/ MakeDir
       \/ ProcessNewBooks
       \/ GetNewBooks
       \/ IsProcessed
       \/ RemoveBook
       \/ ClearAll
    /\ UNCHANGED <<chunkVars, queryVars, trackerVars, raceVars>>
SpecBooks == Init /\ [][NextBooks]_vars

(***************************************************************************)
(* Properties of BookManager and process_new_books (SpecBooks)             *)
(***************************************************************************)

\* the PDFs of the books directory
Pdfs == {n \in DOMAIN files : IsPdf(n)}

\* n was marked as processed and holds what it held then
MarkedUnchanged(n) ==
    IF n \in DOMAIN marked /\ n \in DOMAIN files THEN marked[n] = files[n]
    ELSE FALSE

\* C2: process_new_books processes only the books not processed yet.  A
\* PDF for which is_processed is true is not passed to process_book, is
\* counted in skipped_books, has no chunk in the result and keeps its
\* tracker entry; every PDF is counted as new or as skipped, never both.
C2_OnlyNewBooksProcessed ==
    last.op = "process_new_books" =>
        LET sc == last.scan
            r  == sc.result
        IN  /\ \A n \in Pdfs :
                  is_processed(sc.pb_before, files, n) =>
                      /\ n \notin Range(sc.calls)
                      /\ n \in Range(r.skipped_book_names)
                      /\ \A k \in 1..Len(r.chunks) :
                            r.chunks[k].book_name # extract_book_name(n)
                      /\ n \in DOMAIN tracker
                      /\ tracker[n] = sc.pb_before[n]
            /\ r.new_books_processed + r.skipped_books = Cardinality(Pdfs)
            /\ r.new_books_processed = Cardinality(Range(r.new_book_names))
            /\ r.skipped_books = Cardinality(Range(r.skipped_book_names))
            /\ Range(r.new_book_names) \cap Range(r.skipped_book_names) = {}
            /\ Range(r.new_book_names) \cup Range(r.skipped_book_names) = Pdfs
            /\ Range(sc.calls) = Range(r.new_book_names)

\* C2 witness: a scan that skipped a processed book and processed a new one
C2_Witness ==
    /\ last.op = "process_new_books"
    /\ last.scan.result.skipped_books = 1
    /\ last.scan.result.new_books_processed = 1
    /\ last.scan.result.total_new_chunks > 0
    /\ \E n \in Pdfs : is_processed(last.scan.pb_before, files, n)

\* C3: is_processed(f) is True exactly when f's name has a tracker entry
\* whose stored MD5 hash is the hash of f's contents now, that is, when f
\* was marked as processed and holds what it held then; it is False for
\* an untracked name and for a tracked name whose contents changed.
C3_IsProcessedIffUnchanged ==
    last.op = "is_processed" =>
        /\ last.ret = (/\ last.name \in DOMAIN tracker
                       /\ tracker[last.name].file_hash
                             = _calculate_file_hash(last.name, files[last.name]))
        /\ last.ret = MarkedUnchanged(last.name)
        /\ last.name \notin DOMAIN tracker => last.ret = FALSE
        /\ (last.name \in DOMAIN marked /\ ~MarkedUnchanged(last.name))
              => last.ret = FALSE

\* C3 witness: is_processed returned False for a tracked book whose
\* contents changed
C3_Witness ==
    /\ last.op = "is_processed"
    /\ last.name \in DOMAIN tracker
    /\ ~MarkedUnchanged(last.name)
    /\ last.ret = FALSE

\* g is a PDF with the contents of another file that is processed and
\* unchanged
HasProcessedTwin(g) ==
    \E f \in DOMAIN files \ {g} :
        /\ IsPdf(g) /\ g \in DOMAIN files
        /\ MarkedUnchanged(f)
        /\ files[f] = files[g]

\* C4 as claimed: the tracker identifies a book by the MD5 hash of its
\* contents, so a file with the contents of a processed book, under another
\* name, is reported processed and is not among the new books.
C4_KeyedByHash ==
    /\ (last.op = "is_processed" /\ HasProcessedTwin(last.name))
          => last.ret = TRUE
    /\ last.op = "get_new_books"
          => \A g \in Pdfs : HasProcessedTwin(g) => g \notin Range(last.ret)

\* C4 as amended: the tracker is keyed by file name and stores the MD5
\* hash of the contents under it.  A file whose name has no entry is
\* reported not processed and is among the new books, also when it holds
\* the contents of a processed book.
C4_KeyedByName ==
    /\ DOMAIN tracker = DOMAIN marked
    /\ \A f \in DOMAIN tracker :
          tracker[f].file_hash = _calculate_file_hash(f, marked[f])
    /\ (last.op = "is_processed" /\ last.name \notin DOMAIN tracker)
          => last.ret = FALSE
    /\ last.op = "get_new_books"
          => \A g \in Pdfs : g \notin DOMAIN tracker => g \in Range(last.ret)

\* C4 witness: is_processed returned False for an untracked copy of a
\* processed, unchanged book
C4_Witness ==
    /\ last.op = "is_processed"
    /\ last.name \notin DOMAIN tracker
    /\ HasProcessedTwin(last.name)
    /\ last.ret = FALSE

\* C5: get_new_books returns exactly the PDFs of the directory that are
\* new (no tracker entry) or modified (stored hash differs from the hash
\* of the contents), each once, none that is processed and unchanged, and
\* the empty list when the directory does not exist.
C5_NewBooksExact ==
    last.op = "get_new_books" =>
        /\ Range(last.ret) =
              {n \in Pdfs :
                  IF n \in DOMAIN tracker
                  THEN tracker[n].file_hash # _calculate_file_hash(n, files[n])
                  ELSE TRUE}
        /\ Range(last.ret) = {n \in Pdfs : ~MarkedUnchanged(n)}
        /\ Len(last.ret) = Cardinality(Range(last.ret))
        /\ ~dirExists => last.ret = <<>>

\* C5 witness: get_new_books returned a modified book and left out a
\* processed, unchanged one
C5_Witness ==
    /\ last.op = "get_new_books"
    /\ \E n \in Range(last.ret) : n \in DOMAIN tracker
    /\ \E n \in Pdfs : n \notin Range(last.ret)

(***************************************************************************)
(* Properties of the handlers of app.py (Spec)                             *)
(***************************************************************************)

\* C9 as claimed: in a session auto_initialize_system goes past its guard
\* and does its work at most once, whatever the outcome of the first call.
C9_InitAttemptedOnce == attempts <= 1

\* C9 as amended: the books are scanned at most once in a session, by the
\* one call that finds or constructs the RAG engine, and every call after
\* that one returns without doing anything; a call in which the RAG engine
\* cannot be constructed leaves auto_init_done unset, and the next call
\* tries again.
C9_InitDoneOnce ==
    /\ scans <= 1
    /\ auto_init_done = (scans = 1)
    /\ auto_init_done = (rag_engine # None)
    /\ last.op = "run" =>
          /\ last.was_done => ~last.init_ran
          /\ (~last.was_done) => last.init_ran
          /\ last.init_error = (last.init_ran /\ ~auto_init_done)

\* C9 witness: a session whose first call failed to construct the engine,
\* whose second call initialised, and whose third returned at the guard
C9_Witness ==
    /\ last.op = "run" /\ last.was_done /\ ~last.init_ran
    /\ auto_init_done /\ attempts = 2 /\ scans = 1

\* the chunks of book n among chunks
ChunksOfBook(chunks, n) ==
    {k \in 1..Len(chunks) : chunks[k].book_name = extract_book_name(n)}

\* C10: after reprocess_all_books completed without error the tracker holds
\* exactly the PDFs processed successfully in this run and the collection
\* exactly the chunks produced in this run.
C10_ReprocessRebuilds ==
    (last.op = "run" /\ last.button = "reprocess" /\ last.button_ran
        /\ ~last.button_error) =>
        /\ DOMAIN tracker = Range(last.marked)
        /\ DOMAIN tracker = {n \in Pdfs : files[n] # "bad"}
        /\ \A n \in DOMAIN tracker :
              /\ tracker[n].file_hash = _calculate_file_hash(n, files[n])
              /\ tracker[n].chunk_count
                    = Cardinality(ChunksOfBook(last.chunks, n))
        /\ DOMAIN store = {DocId(last.chunks[k]) : k \in 1..Len(last.chunks)}
        /\ \A k \in 1..Len(last.chunks) :
              store[DocId(last.chunks[k])] = last.chunks[k].text
        /\ \A id \in DOMAIN store :
              \E n \in DOMAIN tracker : id[1] = extract_book_name(n)

\* C10 witness: a Reprocess All without error over two PDF files that
\* rebuilt the collection from the one book that could be processed
C10_Witness ==
    /\ last.op = "run" /\ last.button = "reprocess" /\ last.button_ran
    /\ ~last.button_error
    /\ Cardinality(DOMAIN tracker) = 1
    /\ Cardinality(Pdfs) = 2
    /\ Cardinality(DOMAIN store) >= 2

(***************************************************************************)
(* RAGEngine.  A text is a sequence of words, "\n" being the newline; the  *)
(* empty string is <<>>.  A page is [t, v]: a string as stored in the      *)
(* collection's metadata, or the integer query_stream makes of it.         *)
(***************************************************************************)

StrPage(v) == [t |-> "str", v |-> v]
IntPage(v) == [t |-> "int", v |-> v]

\* int(page) and str(page), for the pages that occur
PageToInt(p) ==
    IF p.t = "int" THEN p
    ELSE IntPage(CASE p.v = "0" -> 0 [] p.v = "1" -> 1 [] p.v = "2" -> 2
                        [] p.v = "3" -> 3)
PageToStr(p) ==
    IF p.t = "str" THEN p.v
    ELSE CASE p.v = 0 -> "0" [] p.v = 1 -> "1" [] p.v = 2 -> "2"
           [] p.v = 3 -> "3"

\* "if page_number:"
Truthy(p) == IF p.t = "int" THEN p.v # 0 ELSE p.v # ""

\* helpers.format_citation(book_name, page_number)
format_citation(book_name, page_number) ==
    IF Truthy(page_number)
    THEN <<"**", book_name, "**", " (Page ", PageToStr(page_number), ")">>
    ELSE <<"**", book_name, "**">>

\* "\n".join(lines)
RECURSIVE JoinNewline(_)
JoinNewline(lines) ==
    IF lines = <<>> THEN <<>>
    ELSE IF Len(lines) = 1 THEN lines[1]
    ELSE lines[1] \o <<"\n">> \o JoinNewline(Tail(lines))

\* the line of source number i: f"{i}. {format_citation(book, page)}"
CitationFromZero(i, source) ==
    <<PageToStr(IntPage(i - 1)), ". ">>
        \o format_citation(source.book, source.page)
CitationLine(i, source) ==
    <<PageToStr(IntPage(i)), ". ">>
        \o format_citation(source.book, source.page)

\* helpers.format_citations_list(sources): "" if there is no source, else
\* the numbered lines joined by newlines
format_citations_list(sources) ==
    IF sources = <<>> THEN <<>>
    ELSE JoinNewline([i \in 1..Len(sources) |-> CitationLine(i, sources[i])])

\* the fixed texts of rag_engine.py
GENERAL_CITATIONS == <<"Based on general knowledge (not from textbooks)">>
NOT_FOUND_ANSWER ==
    <<"I couldn't find relevant information in the books to answer this question.">>
NOT_FOUND_STREAM == <<"No relevant information found in the books.">>

\* The outcome of the calls into the vector store and the LLM during one
\* operation:
\*   search_ok, chunks   similarity_search returns chunks, or raises
\*   llm_ok, answer      generate_response returns answer, or raises
\*   stream_ok, pieces   stream_response yields pieces, or raises after them
\* A trace t = [searches, llm_calls, raised] counts the calls made.
NoTrace == [searches |-> 0, llm_calls |-> 0, raised |-> FALSE]

NoResult == [answer |-> <<>>, mode |-> "none", sources |-> <<>>, citations |-> <<>>]

\* sources of query_books
BookSources(chunks) ==
    [i \in 1..Len(chunks) |->
        [book |-> chunks[i].metadata.book_name,
         page |-> chunks[i].metadata.page,
         text_preview |-> chunks[i].text]]

\* sources of query_stream
StreamSources(chunks) ==
    [i \in 1..Len(chunks) |->
        [book |-> chunks[i].metadata.book_name,
         page |-> PageToInt(chunks[i].metadata.page)]]

\* query_books(question): [answer, sources, trace]
QueryBooksNoCheck(question, ext) ==
    IF ~ext.search_ok
    THEN [answer |-> <<>>, sources |-> <<>>,
          trace |-> [searches |-> 1, llm_calls |-> 0, raised |-> TRUE]]
    ELSE IF ~ext.llm_ok
    THEN [answer |-> <<>>, sources |-> <<>>,
          trace |-> [searches |-> 1, llm_calls |-> 1, raised |-> TRUE]]
    ELSE [answer |-> ext.answer, sources |-> BookSources(ext.chunks),
          trace |-> [searches |-> 1, llm_calls |-> 1, raised |-> FALSE]]
query_books(question, ext) ==
    IF ~ext.search_ok
    THEN [answer |-> <<>>, sources |-> <<>>,
          trace |-> [searches |-> 1, llm_calls |-> 0, raised |-> TRUE]]
    ELSE IF ext.chunks = <<>>
    THEN [answer |-> NOT_FOUND_ANSWER, sources |-> <<>>,
          trace |-> [searches |-> 1, llm_calls |-> 0, raised |-> FALSE]]
    ELSE IF ~ext.llm_ok
    THEN [answer |-> <<>>, sources |-> <<>>,
          trace |-> [searches |-> 1, llm_calls |-> 1, raised |-> TRUE]]
    ELSE [answer |-> ext.answer, sources |-> BookSources(ext.chunks),
          trace |-> [searches |-> 1, llm_calls |-> 1, raised |-> FALSE]]

\* the general knowledge branch of query
QueryGeneralViaBooks(question, ext) ==
    [result |-> [answer |-> query_books(question, ext).answer,
                 mode |-> "general_knowledge", sources |-> <<>>,
                 citations |-> GENERAL_CITATIONS],
     trace |-> query_books(question, ext).trace]
QueryGeneral(question, ext) ==
    IF ~ext.llm_ok
    THEN [result |-> NoResult,
          trace |-> [searches |-> 0, llm_calls |-> 1, raised |-> TRUE]]
    ELSE [result |-> [answer |-> ext.answer, mode |-> "general_knowledge",
                      sources |-> <<>>, citations |-> GENERAL_CITATIONS],
          trace |-> [searches |-> 0, llm_calls |-> 1, raised |-> FALSE]]

\* the book-based branch of query, given what query_books returned
QueryBookBased(qb) ==
    IF qb.trace.raised THEN [result |-> NoResult, trace |-> qb.trace]
    ELSE [result |-> [answer |-> qb.answer, mode |-> "book_based",
                      sources |-> qb.sources,
                      citations |-> format_citations_list(qb.sources)],
          trace |-> qb.trace]

\* query(question, use_general_knowledge): [result, trace]
query(question, use_general_knowledge, ext) ==
    IF use_general_knowledge THEN QueryGeneral(question, ext)
    ELSE QueryBookBased(query_books(question, ext))

\* the concatenation of the pieces a stream yields
RECURSIVE Concat(_)
Concat(pieces) ==
    IF pieces = <<>> THEN <<>> ELSE Head(pieces) \o Concat(Tail(pieces))

\* the streaming of one answer: what is yielded, and the result returned
\* when the stream ends without raising
StreamAnswer(ext, searches, mode, sources, citations) ==
    IF ~ext.stream_ok
    THEN [yielded |-> ext.pieces, result |-> NoResult,
          trace |-> [searches |-> searches, llm_calls |-> 1, raised |-> TRUE]]
    ELSE [yielded |-> ext.pieces,
          result |-> [answer |-> Concat(ext.pieces), mode |-> mode,
                      sources |-> sources, citations |-> citations],
          trace |-> [searches |-> searches, llm_calls |-> 1, raised |-> FALSE]]

\* query_stream(question, use_general_knowledge): [yielded, result, trace]
query_stream(question, use_general_knowledge, ext) ==
    IF use_general_knowledge
    THEN StreamAnswer(ext, 0, "general_knowledge", <<>>, GENERAL_CITATIONS)
    ELSE IF ~ext.search_ok
    THEN [yielded |-> <<>>, result |-> NoResult,
          trace |-> [searches |-> 1, llm_calls |-> 0, raised |-> TRUE]]
    ELSE IF ext.chunks = <<>>
    THEN [yielded |-> <<NOT_FOUND_STREAM>>,
          result |-> [answer |-> NOT_FOUND_STREAM, mode |-> "book_based",
                      sources |-> <<>>, citations |-> <<>>],
          trace |-> [searches |-> 1, llm_calls |-> 0, raised |-> FALSE]]
    ELSE StreamAnswer(ext, 1, "book_based", StreamSources(ext.chunks),
                      format_citations_list(StreamSources(ext.chunks)))

(***************************************************************************)
(* app.py: the submit handler of main() and the chat history               *)
(***************************************************************************)

\* st.session_state.current_response = None
NoResponse == [mode |-> None]

\* "Construct final result", before the sources of a book-based answer
FirstResult(question, use_general, answer_text) ==
    [answer |-> answer_text, query |-> question,
     mode |-> IF use_general THEN "general_knowledge" ELSE "book_based",
     sources |-> <<>>,
     citations |-> IF use_general THEN GENERAL_CITATIONS ELSE <<>>]

\* "Store current response" and "Add to history", reached only when
\* nothing raised before; the except branch leaves the session as it was
StoreEager(sess, result, raised) ==
    [chat_history |-> Append(sess.chat_history, result),
     current_response |-> result]
StoreResult(sess, result, raised) ==
    IF raised THEN sess
    ELSE [chat_history |-> Append(sess.chat_history, result),
          current_response |-> result]

\* the sum of the calls of two traces
AddTrace(t1, t2) ==
    [searches |-> t1.searches + t2.searches,
     llm_calls |-> t1.llm_calls + t2.llm_calls,
     raised |-> t1.raised \/ t2.raised]

\* "if submit_button and query:" after the stream sr; full is the
\* non-streaming query that follows in book-based mode
SubmitAfterStream(sess, question, use_general, sr, full) ==
    IF sr.trace.raised
    THEN [sess |-> StoreResult(sess, NoResult, TRUE), trace |-> sr.trace,
          error_shown |-> TRUE]
    ELSE IF use_general
    THEN [sess |-> StoreResult(sess,
                       FirstResult(question, use_general, Concat(sr.yielded)),
                       FALSE),
          trace |-> sr.trace, error_shown |-> FALSE]
    ELSE [sess |-> StoreResult(sess,
                       [FirstResult(question, use_general, Concat(sr.yielded))
                           EXCEPT !.sources = full.result.sources,
                                  !.citations = full.result.citations],
                       full.trace.raised),
          trace |-> AddTrace(sr.trace, full.trace),
          error_shown |-> full.trace.raised]

\* the submit handler: ext1 are the outcomes of the calls of query_stream,
\* ext2 those of the query that follows
submit(sess, question, use_general, ext1, ext2) ==
    SubmitAfterStream(sess, question, use_general,
                      query_stream(question, use_general, ext1),
                      query(question, FALSE, ext2))

(***************************************************************************)
(* SpecQuery: question answering                                           *)
(***************************************************************************)

\* questions kept in the chat history
MaxHistory == 2

Questions == {"What is distillation?"}

\* what the collection can return for a question
ChunkA == [text |-> <<"heat">>, metadata |-> [book_name |-> "A", page |-> StrPage("1")]]
ChunkB == [text |-> <<"mass">>, metadata |-> [book_name |-> "B", page |-> StrPage("2")]]
ChunkC == [text |-> <<"flow">>, metadata |-> [book_name |-> "A", page |-> StrPage("3")]]
Retrievals ==
    { <<>>, <<ChunkA>>, <<ChunkB>>, <<ChunkA, ChunkB>>, <<ChunkB, ChunkA>>,
      <<ChunkB, ChunkC, ChunkA>> }

\* what the LLM can answer, as one text and as the pieces of a stream
Answers == { <<"Heat", "flows">>, <<"Mass">> }
Streams == { << <<"Heat">>, <<"flows">> >>, << <<"Mass">> >> }

Ext(search_ok, chunks, llm_ok, answer, stream_ok, pieces) ==
    [search_ok |-> search_ok, chunks |-> chunks, llm_ok |-> llm_ok,
     answer |-> answer, stream_ok |-> stream_ok, pieces |-> pieces]

DefaultAnswer == <<"Mass">>
DefaultPieces == << <<"Mass">> >>

QueryInit ==
    /\ chat_history = <<>>
    /\ current_response = NoResponse
    /\ qlast = [op |-> "init"]

\* RAGEngine.query(question, use_general_knowledge)
Query ==
    \E question \in Questions, use_general, search_ok, llm_ok \in BOOLEAN,
       chunks \in Retrievals, answer \in Answers :
        /\ (use_general => search_ok /\ chunks = <<>>)
        /\ (~search_ok => chunks = <<>>)
        /\ (chunks = <<>> /\ ~use_general => llm_ok)
        /\ (~llm_ok => answer = DefaultAnswer)
        /\ \E r \in {query(question, use_general,
                           Ext(search_ok, chunks, llm_ok, answer,
                               TRUE, DefaultPieces))} :
              qlast' = [op |-> "query", use_general |-> use_general,
                        search_ok |-> search_ok, chunks |-> chunks,
                        trace |-> r.trace, result |-> r.result]
        /\ UNCHANGED <<chat_history, current_response>>

\* RAGEngine.query_stream(question, use_general_knowledge), run to its end
QueryStream ==
    \E question \in Questions, use_general, search_ok, stream_ok \in BOOLEAN,
       chunks \in Retrievals, pieces \in Streams :
        /\ (use_general => search_ok /\ chunks = <<>>)
        /\ (~search_ok => chunks = <<>>)
        /\ (chunks = <<>> /\ ~use_general
               => stream_ok /\ pieces = DefaultPieces)
        /\ \E r \in {query_stream(question, use_general,
                                  Ext(search_ok, chunks, TRUE, DefaultAnswer,
                                      stream_ok, pieces))} :
              qlast' = [op |-> "query_stream", use_general |-> use_general,
                        search_ok |-> search_ok, chunks |-> chunks,
                        trace |-> r.trace, result |-> r.result,
                        yielded |-> r.yielded]
        /\ UNCHANGED <<chat_history, current_response>>

\* main(): a question is submitted
Submit ==
    \E question \in Questions, use_general, search_ok, stream_ok,
       search2_ok, llm2_ok \in BOOLEAN,
       chunks \in Retrievals, pieces \in Streams :
        /\ Len(chat_history) < MaxHistory
        /\ (use_general => search_ok /\ chunks = <<>> /\ search2_ok /\ llm2_ok)
        /\ (~search_ok => chunks = <<>>)
        /\ (chunks = <<>> /\ ~use_general
               => stream_ok /\ pieces = DefaultPieces /\ llm2_ok)
        /\ (~search_ok \/ ~stream_ok => search2_ok /\ llm2_ok)
        /\ (~search2_ok => llm2_ok)
        /\ \E r \in {submit([chat_history |-> chat_history,
                             current_response |-> current_response],
                            question, use_general,
                            Ext(search_ok, chunks, TRUE, DefaultAnswer,
                                stream_ok, pieces),
                            Ext(search2_ok, chunks, llm2_ok, DefaultAnswer,
                                TRUE, DefaultPieces))} :
              /\ chat_history' = r.sess.chat_history
              /\ current_response' = r.sess.current_response
              /\ qlast' = [op |-> "submit", use_general |-> use_general,
                           chunks |-> chunks,
                           trace |-> r.trace, error_shown |-> r.error_shown,
                           propagated |-> r.trace.raised /\ ~r.error_shown,
                           stored |-> r.sess.chat_history # chat_history]

\* main(): Clear History
ClearHistory ==
    /\ chat_history' = <<>>
    /\ current_response' = NoResponse
    /\ qlast' = [op |-> "clear_history"]

InitQuery == QueryInit /\ LibIdle /\ ChunkIdle /\ TrackerIdle /\ RaceIdle
NextQuery ==
    /\ \/ Query
       \/ QueryStream
       \/ Submit
       \/ ClearHistory
    /\ UNCHANGED <<chunkVars, libVars, trackerVars, raceVars>>
SpecQuery == InitQuery /\ [][NextQuery]_vars

\* C1: general knowledge mode bypasses retrieval.  query and query_stream
\* with use_general_knowledge=True, and a question submitted in that mode,
\* never call similarity_search; their result has mode general_knowledge,
\* no sources and the fixed citations text.
C1_GeneralBypassesRetrieval ==
    /\ (qlast.op \in {"query", "query_stream"} /\ qlast.use_general) =>
          /\ qlast.trace.searches = 0
          /\ ~qlast.trace.raised =>
                /\ qlast.result.mode = "general_knowledge"
                /\ qlast.result.sources = <<>>
                /\ qlast.result.citations = GENERAL_CITATIONS
    /\ (qlast.op = "submit" /\ qlast.use_general) =>
          /\ qlast.trace.searches = 0
          /\ qlast.stored =>
                /\ current_response.mode = "general_knowledge"
                /\ current_response.sources = <<>>
                /\ current_response.citations = GENERAL_CITATIONS

\* C1 witness: a general knowledge query that returned an answer
C1_Witness ==
    /\ qlast.op = "query" /\ qlast.use_general /\ ~qlast.trace.raised
    /\ qlast.trace.llm_calls = 1
    /\ qlast.result.answer # <<>>

\* C8: when the streaming query or the query that follows it raises while
\* a submitted question is processed, the exception stays inside main, an
\* error is shown, and chat_history and current_response are what they
\* were before the submission.
C8_ErrorKeepsSession ==
    [][ (qlast'.op = "submit" /\ qlast'.trace.raised) =>
            /\ qlast'.error_shown
            /\ ~qlast'.propagated
            /\ chat_history' = chat_history
            /\ current_response' = current_response ]_vars

\* C8 witness: the query after a finished stream raised, an error was
\* shown and the history still holds the earlier answer
C8_Witness ==
    /\ qlast.op = "submit" /\ qlast.trace.raised /\ qlast.error_shown
    /\ qlast.trace.llm_calls = 2
    /\ ~qlast.stored
    /\ Len(chat_history) = 1
    /\ current_response = chat_history[1]

\* C11: answering one submitted question performs at most one similarity
\* search and exactly one LLM generation call, in book-based mode as well
\* as in general knowledge mode.
C11_SingleCalls ==
    (qlast.op = "submit" /\ ~qlast.trace.raised) =>
        /\ qlast.trace.searches <= 1
        /\ qlast.trace.llm_calls = 1

\* the lines of a text: text.split("\n")
RECURSIVE SplitLines(_, _)
SplitLines(text, line) ==
    IF text = <<>> THEN <<line>>
    ELSE IF Head(text) = "\n"
    THEN <<line>> \o SplitLines(Tail(text), <<>>)
    ELSE SplitLines(Tail(text), Append(line, Head(text)))

\* C12: when query retrieves n >= 1 chunks for a book-based question, the
\* result has n sources in retrieval order and citations has exactly n
\* lines, line i numbered i and naming the book of the i-th retrieved
\* chunk; for an empty source list citations is the empty string.
C12_CitationPerChunk ==
    (qlast.op = "query" /\ ~qlast.use_general /\ ~qlast.trace.raised) =>
        /\ Len(qlast.result.sources) = Len(qlast.chunks)
        /\ \A i \in 1..Len(qlast.chunks) :
              /\ qlast.result.sources[i].book
                    = qlast.chunks[i].metadata.book_name
              /\ qlast.result.sources[i].page = qlast.chunks[i].metadata.page
        /\ qlast.chunks = <<>> => qlast.result.citations = <<>>
        /\ qlast.chunks # <<>> =>
              /\ Len(SplitLines(qlast.result.citations, <<>>))
                    = Len(qlast.chunks)
              /\ \A i \in 1..Len(qlast.chunks) :
                    /\ SplitLines(qlast.result.citations, <<>>)[i][1]
                          = PageToStr(IntPage(i))
                    /\ SplitLines(qlast.result.citations, <<>>)[i][2] = ". "
                    /\ SplitLines(qlast.result.citations, <<>>)[i][4]
                          = qlast.chunks[i].metadata.book_name

\* C12 witness: a book-based query that retrieved three chunks, two of
\* them of one book, and returned three sources
C12_Witness ==
    /\ qlast.op = "query" /\ ~qlast.use_general /\ ~qlast.trace.raised
    /\ Len(qlast.chunks) = 3
    /\ Len(qlast.result.sources) = 3
    /\ qlast.result.sources[2].book = qlast.result.sources[3].book

(***************************************************************************)
(* SpecTruncate: helpers.truncate_text applied to bounded inputs           *)
(***************************************************************************)

\* helpers.truncate_text(text, max_length)
truncate_text(text, max_length) ==
    IF Len(text) <= max_length THEN text
    ELSE PyPrefix(text, max_length - 3) \o <<".", ".", ".">>

\* the longest text and the largest max_length tried
MaxTruncText == 7
MaxTruncLength == 8

TruncateInit ==
    /\ \E n \in 0..MaxTruncText : \E p2 \in 0..n : \E p1 \in 0..p2 :
       \E max_length \in 0..MaxTruncLength :
          cin = [text |-> TextOf(n, p1, p2), max_length |-> max_length]
    /\ cout = <<>>
    /\ cpc = "ready"

\* one call of truncate_text
TruncateCall ==
    /\ cpc = "ready"
    /\ cout' = truncate_text(cin.text, cin.max_length)
    /\ cpc' = "done"
    /\ UNCHANGED cin

InitTruncate == TruncateInit /\ LibIdle /\ QueryIdle /\ TrackerIdle /\ RaceIdle
NextTruncate ==
    TruncateCall /\ UNCHANGED <<libVars, queryVars, trackerVars, raceVars>>
SpecTruncate == InitTruncate /\ [][NextTruncate]_vars

\* C13: for every text and every max_length the result of truncate_text has
\* at most max_length characters; it is the text itself when
\* len(text) <= max_length and otherwise a prefix of the text followed by
\* "...".
C13_TruncateBounded ==
    cpc = "done" =>
        /\ Len(cout) <= cin.max_length
        /\ Len(cin.text) <= cin.max_length => cout = cin.text
        /\ Len(cin.text) > cin.max_length =>
              \E k \in 0..Len(cin.text) :
                  cout = SubSeq(cin.text, 1, k) \o <<".", ".", ".">>

(***************************************************************************)
(* Further properties of process_new_books and the tracker (SpecBooks)     *)
(***************************************************************************)

\* the new books of the last scan for which process_book raised
FailedBooks ==
    {n \in Range(last.scan.result.new_book_names) :
        process_book(n, files[n]).raised}

\* C14: a failing book does not stop a scan.  When process_book raises for
\* a new book, every new book, those after it included, is still passed to
\* process_book; the failed book has no chunk in the result and its
\* tracker entry is not written, so is_processed is False for it and the
\* next scan lists it as new again; the other new books are marked.
C14_FailingBookSkipped ==
    last.op = "process_new_books" =>
        /\ last.scan.calls = last.scan.result.new_book_names
        /\ \A n \in FailedBooks :
              /\ n \notin Range(last.scan.marked)
              /\ \A k \in 1..Len(last.scan.result.chunks) :
                    last.scan.result.chunks[k].book_name
                        # extract_book_name(n)
              /\ IF n \in DOMAIN last.scan.pb_before
                 THEN n \in DOMAIN tracker /\ tracker[n] = last.scan.pb_before[n]
                 ELSE n \notin DOMAIN tracker
              /\ ~is_processed(tracker, files, n)
              /\ n \in Range(get_new_books(tracker, dirExists, files))
              /\ n \in Range(NewBooksOf(tracker, files, GlobPdf(files)))
        /\ \A n \in Range(last.scan.result.new_book_names) \ FailedBooks :
              /\ n \in Range(last.scan.marked)
              /\ is_processed(tracker, files, n)

\* C14 witness: a scan whose first new book failed and whose second new
\* book was processed and marked
C14_Witness ==
    /\ last.op = "process_new_books"
    /\ Len(last.scan.result.new_book_names) = 2
    /\ last.scan.result.new_book_names[1] \in FailedBooks
    /\ last.scan.marked = <<last.scan.result.new_book_names[2]>>
    /\ last.scan.result.total_new_chunks > 0

(***************************************************************************)
(* SpecTracker: one BookManager and its tracker file.  The file is         *)
(* [state, processed_books]: absent, a JSON document holding the           *)
(* dictionary, or corrupt (a write that was cut short).  json.dump and     *)
(* json.load keep a dictionary of strings and integers as it is.           *)
(***************************************************************************)

AbsentFile == [state |-> "absent", processed_books |-> EmptyMap]
CorruptFile == [state |-> "corrupt", processed_books |-> EmptyMap]

\* what a write of the tracker file can do: succeed, raise before the file
\* is opened (the file stays as it is), or raise after the file was
\* truncated
SaveOutcomes == {"ok", "refused", "cut"}

\* _save_tracker(): the file afterwards; the exception of a failed write
\* is logged and not raised
SaveSkipped(file, pb, outcome) == file
_save_tracker(file, pb, outcome) ==
    CASE outcome = "ok" -> [state |-> "json", processed_books |-> pb]
      [] outcome = "refused" -> file
      [] outcome = "cut" -> CorruptFile

\* _load_tracker(): {} when the file does not exist or does not parse
_load_tracker(file) ==
    IF file.state = "json" THEN file.processed_books ELSE EmptyMap

\* largest chunk count passed to mark_as_processed
MaxChunkCount == 1

\* the books directory holds a.pdf and b.pdf; the first BookManager is
\* constructed when there is no tracker file
TrackerInit ==
    /\ dirExists = TRUE
    /\ \E ca, cb \in {"short", "long"} :
          files = [n \in {<<"a", "pdf">>, <<"b", "pdf">>} |->
                      IF n[1] = "a" THEN ca ELSE cb]
    /\ tracker = EmptyMap /\ store = EmptyMap /\ marked = EmptyMap
    /\ rag_engine = None /\ auto_init_done = FALSE
    /\ attempts = 0 /\ scans = 0
    /\ tracker_file = AbsentFile
    /\ bm = _load_tracker(AbsentFile)
    /\ last = [op |-> "init", synced |-> TRUE]

\* bm.mark_as_processed(path, chunk_count)
TrackerMark ==
    \E n \in DOMAIN files, chunk_count \in 0..MaxChunkCount,
       outcome \in SaveOutcomes :
        /\ bm' = mark_as_processed(bm, files, n, chunk_count)
        /\ tracker_file' = _save_tracker(tracker_file, bm', outcome)
        /\ last' = [op |-> "mark_as_processed", synced |-> outcome = "ok"]

\* bm.remove_book(file_name)
TrackerRemove ==
    \E n \in FileNames, outcome \in SaveOutcomes :
        IF n \in DOMAIN bm
        THEN /\ bm' = remove_book(bm, n)
             /\ tracker_file' = _save_tracker(tracker_file, bm', outcome)
             /\ last' = [op |-> "remove_book", synced |-> outcome = "ok"]
        ELSE /\ outcome = "ok"
             /\ UNCHANGED <<bm, tracker_file>>
             /\ last' = [op |-> "remove_book", synced |-> last.synced]

\* bm.clear_all()
TrackerClear ==
    \E outcome \in SaveOutcomes :
        /\ bm' = clear_all(bm)
        /\ tracker_file' = _save_tracker(tracker_file, bm', outcome)
        /\ last' = [op |-> "clear_all", synced |-> outcome = "ok"]

\* BookManager() is constructed anew on the same tracker file
TrackerReload ==
    /\ last.op # "new_manager"
    /\ last' = [op |-> "new_manager", synced |-> last.synced,
                processed_books |-> _load_tracker(tracker_file)]
    /\ UNCHANGED <<bm, tracker_file>>

InitTracker == TrackerInit /\ ChunkIdle /\ QueryIdle /\ RaceIdle
NextTracker ==
    /\ \/ TrackerMark
       \/ TrackerRemove
       \/ TrackerClear
       \/ TrackerReload
    /\ UNCHANGED <<dirExists, files, tracker, store, marked, sessionVars,
                   chunkVars, queryVars, raceVars>>
SpecTracker == InitTracker /\ [][NextTracker]_vars

C16_NoChunkNoLLM ==
    (/\ qlast.op \in {"query", "query_stream"}
     /\ ~qlast.use_general /\ qlast.search_ok /\ qlast.chunks = <<>>) =>
        /\ qlast.trace.llm_calls = 0
        /\ qlast.trace.searches = 1
        /\ ~qlast.trace.raised
        /\ qlast.result.sources = <<>>
        /\ qlast.result.citations = <<>>
        /\ qlast.op = "query" => qlast.result.answer = NOT_FOUND_ANSWER
        /\ qlast.op = "query_stream" =>
              /\ qlast.yielded = <<NOT_FOUND_STREAM>>
              /\ qlast.result.answer = NOT_FOUND_STREAM

\* C16 witness: a streamed book-based question for which the search
\* returned nothing
C16_Witness ==
    /\ qlast.op = "query_stream" /\ ~qlast.use_general
    /\ qlast.search_ok /\ qlast.chunks = <<>>
    /\ Len(qlast.yielded) = 1

(***************************************************************************)
(* SpecSessions: two sessions of the application, each in a thread of its  *)
(* own, run auto_initialize_system (from "Auto-process new books" on) or   *)
(* rescan_for_new_books against the same directory, tracker file and       *)
(* collection.  A step is one statement that reads or writes what they     *)
(* share; nothing in the code orders the steps of different sessions.      *)
(***************************************************************************)

Sessions == {1, 2}

\* the PDFs the directory can hold while the sessions run
RaceBooks == {<<"a", "pdf">>, <<"b", "pdf">>}

RaceInit ==
    /\ dirExists = TRUE
    /\ \E ca, cb \in {"short", "bad", "none"} :
          files = [n \in {m \in RaceBooks :
                            IF m[1] = "a" THEN ca # "none" ELSE cb # "none"} |->
                      IF n[1] = "a" THEN ca ELSE cb]
    /\ tracker = EmptyMap /\ store = EmptyMap /\ marked = EmptyMap
    /\ rag_engine = "engine" /\ auto_init_done = FALSE
    /\ attempts = 0 /\ scans = 0
    /\ last = [op |-> "init"]
    /\ sessions = [i \in Sessions |->
                      [pc |-> "start", pb |-> EmptyMap, todo |-> <<>>,
                       chunks |-> <<>>]]
    /\ hist = [n \in RaceBooks |-> [processed |-> {}, added |-> {}]]

\* book_manager = BookManager(): the tracker file is loaded
SessionLoad(i) ==
    /\ sessions[i].pc = "start"
    /\ sessions' = [sessions EXCEPT ![i].pc = "scan", ![i].pb = tracker]
    /\ UNCHANGED <<tracker, store, hist>>

\* get_new_books / the first loop of process_new_books: the new books
\* according to the processed_books this session holds
SessionScan(i) ==
    /\ sessions[i].pc = "scan"
    /\ sessions' = [sessions EXCEPT
           ![i].pc = "process",
           ![i].todo = NewBooksOf(sessions[i].pb, files, GlobPdf(files))]
    /\ UNCHANGED <<tracker, store, hist>>

\* one turn of the second loop of process_new_books: process_book, then
\* mark_as_processed, which writes this session's processed_books to the
\* tracker file
SessionProcess(i) ==
    /\ sessions[i].pc = "process"
    /\ sessions[i].todo # <<>>
    /\ \E acc \in {ProcessLoop(<<Head(sessions[i].todo)>>,
                               [all_chunks |-> sessions[i].chunks,
                                pb |-> sessions[i].pb,
                                calls |-> <<>>, marked |-> <<>>],
                               files)} :
          /\ sessions' = [sessions EXCEPT ![i].todo = Tail(@),
                                          ![i].chunks = acc.all_chunks,
                                          ![i].pb = acc.pb]
          /\ tracker' = IF acc.marked # <<>> THEN acc.pb ELSE tracker
          /\ hist' = [hist EXCEPT ![Head(sessions[i].todo)].processed =
                         IF acc.marked # <<>> THEN @ \cup {i} ELSE @]
    /\ UNCHANGED store

\* "if result['total_new_chunks'] > 0: ...add_documents(result['chunks'])"
SessionAdd(i) ==
    /\ sessions[i].pc = "process"
    /\ sessions[i].todo = <<>>
    /\ sessions' = [sessions EXCEPT ![i].pc = "done"]
    /\ store' = IF sessions[i].chunks # <<>>
                THEN add_documents(store, sessions[i].chunks)
                ELSE store
    /\ hist' = [n \in RaceBooks |->
                   IF \E k \in 1..Len(sessions[i].chunks) :
                         sessions[i].chunks[k].book_name = extract_book_name(n)
                   THEN [hist[n] EXCEPT !.added = @ \cup {i}]
                   ELSE hist[n]]
    /\ UNCHANGED tracker

InitSessions == RaceInit /\ ChunkIdle /\ QueryIdle /\ TrackerIdle
NextSessions ==
    /\ \E i \in Sessions :
          \/ SessionLoad(i)
          \/ SessionScan(i)
          \/ SessionProcess(i)
          \/ SessionAdd(i)
    /\ UNCHANGED <<dirExists, files, marked, last, sessionVars,
                   chunkVars, queryVars, trackerVars>>
SpecSessions == InitSessions /\ [][NextSessions]_vars

\* C17: when two sessions run auto-initialisation or Rescan concurrently
\* against the same directory, tracker file and collection, each new book
\* is processed, and has its chunks added to the collection, by at most
\* one of them.
C17_ProcessedByOneSession ==
    \A n \in RaceBooks :
        /\ Cardinality(hist[n].processed) <= 1
        /\ Cardinality(hist[n].added) <= 1

====
